---- MODULE Spec2Model ----
(***************************************************************************)
(* Retry policies of gax/retry_policy.h: LimitedErrorCountRetryPolicy and  *)
(* LimitedDurationRetryPolicy over an injected clock.                      *)
(*                                                                         *)
(* Clock readings are counted in ticks of the clock's own period, which is *)
(* finer than a millisecond (TicksPerMs ticks make one millisecond).       *)
(* Durations handed to the constructors carry their own period, either the *)
(* clock's tick or the millisecond; the constructors duration_cast them to *)
(* whole milliseconds.                                                     *)
(***************************************************************************)
EXTENDS Integers, Sequences, FiniteSets

\* ---- bounds of the model ----
TicksPerMs == 2     \* clock ticks in one millisecond
MaxTime == 4        \* largest clock reading explored
MaxStart == 0       \* largest clock reading at construction of the first policy
MaxInst == 2        \* policy objects alive at once (the first one and its clones)
MaxCalls == 3       \* transient failures explored per error-count policy
MaxNegArg == 1      \* largest magnitude of a negative constructor argument explored
MaxArg == 2         \* largest constructor argument explored

VARIABLES now, inst, args, born, transients, granted, refused, last, thr, raced

vars == <<now, inst, args, born, transients, granted, refused, last, thr, raced>>

Periods == {"tick", "milli"}

\* std::chrono::duration<Rep, Period> values handed to the constructors
Durations == [count : (-MaxNegArg)..MaxArg, period : Periods]

\* variant: the quotient is rounded down (floor) instead of toward zero
TruncDivFloor(a, b) == a \div b

\* integer division of C++: the quotient is truncated toward zero
TruncDiv(a, b) == IF a >= 0 THEN a \div b ELSE -((-a) \div b)

\* std::chrono::duration_cast<std::chrono::milliseconds>
DurationCast(d) ==
    IF d.period = "milli" THEN d.count ELSE TruncDiv(d.count, TicksPerMs)

\* a stored std::chrono::milliseconds member, seen as a constructor argument
Millis(ms) == [count |-> ms, period |-> "milli"]

\* time_point + milliseconds, in the clock's own period
PlusMillis(t, ms) == t + ms * TicksPerMs

Min(a, b) == IF b < a THEN b ELSE a

\* ---- LimitedErrorCountRetryPolicy ----

\* variant: the failure counter starts at one
CountCtorStartsAtOne(max_failures, rpc_duration) ==
    [kind |-> "count",
     rpc_duration_ |-> DurationCast(rpc_duration),
     failure_count_ |-> 1,
     max_failures_ |-> max_failures]

CountCtor(max_failures, rpc_duration) ==
    [kind |-> "count",
     rpc_duration_ |-> DurationCast(rpc_duration),
     failure_count_ |-> 0,
     max_failures_ |-> max_failures]

\* variant: a member-wise copy, which carries the failure counter over
CountCopyCtorMemberwise(rhs) == rhs

CountCopyCtor(rhs) == CountCtor(rhs.max_failures_, Millis(rhs.rpc_duration_))

CountClone(this) == CountCopyCtor(this)

\* variant: the comparison admits one failure too many (<= for <)
CountOnFailureInclusive(this, permanent) ==
    IF permanent
    THEN [this |-> this, ret |-> FALSE]
    ELSE [this |-> [this EXCEPT !.failure_count_ = @ + 1],
          ret |-> this.failure_count_ <= this.max_failures_]

\* variant: the status is not consulted
CountOnFailureAnyStatus(this, permanent) ==
    [this |-> [this EXCEPT !.failure_count_ = @ + 1],
     ret |-> this.failure_count_ < this.max_failures_]

\* variant: the counter is advanced before the status is consulted
CountOnFailureEager(this, permanent) ==
    [this |-> [this EXCEPT !.failure_count_ = @ + 1],
     ret |-> (~permanent) /\ this.failure_count_ < this.max_failures_]

\* variant: a refusal starts a new budget
CountOnFailureRestarting(this, permanent) ==
    IF permanent
    THEN [this |-> this, ret |-> FALSE]
    ELSE IF this.failure_count_ < this.max_failures_
    THEN [this |-> [this EXCEPT !.failure_count_ = @ + 1], ret |-> TRUE]
    ELSE [this |-> [this EXCEPT !.failure_count_ = 0], ret |-> FALSE]

\* variant: the comparison does not advance the counter
CountOnFailureForgetful(this, permanent) ==
    IF permanent
    THEN [this |-> this, ret |-> FALSE]
    ELSE [this |-> this, ret |-> this.failure_count_ < this.max_failures_]

\* the && does not evaluate failure_count_++ when the status is permanent
CountOnFailure(this, permanent) ==
    IF permanent
    THEN [this |-> this, ret |-> FALSE]
    ELSE [this |-> [this EXCEPT !.failure_count_ = @ + 1],
          ret |-> this.failure_count_ < this.max_failures_]

\* variant: asking for the deadline is counted as a failure
CountOperationDeadlineCounting(this, t) ==
    [this |-> [this EXCEPT !.failure_count_ = @ + 1],
     ret |-> PlusMillis(t, this.rpc_duration_)]

\* variant: the millisecond count is added as if it were in clock ticks
CountOperationDeadlineRawCount(this, t) ==
    [this |-> this, ret |-> t + this.rpc_duration_]

CountOperationDeadline(this, t) ==
    [this |-> this, ret |-> PlusMillis(t, this.rpc_duration_)]

\* ---- LimitedDurationRetryPolicy ----

DurationCtor(max_duration, rpc_duration, t) ==
    [kind |-> "duration",
     rpc_duration_ |-> DurationCast(rpc_duration),
     max_duration_ |-> DurationCast(max_duration),
     deadline_ |-> PlusMillis(t, DurationCast(max_duration))]

\* variant: a member-wise copy, which carries the deadline over
DurationCopyCtorMemberwise(rhs, t) == rhs

DurationCopyCtor(rhs, t) ==
    DurationCtor(Millis(rhs.max_duration_), Millis(rhs.rpc_duration_), t)

DurationClone(this, t) == DurationCopyCtor(this, t)

\* variant: the comparison is turned round (deadline_ < now)
DurationOnFailureReversed(this, permanent, t) ==
    [this |-> this, ret |-> (~permanent) /\ this.deadline_ < t]

\* variant: an approved retry pushes the overall deadline on by a millisecond
DurationOnFailureExtending(this, permanent, t) ==
    IF (~permanent) /\ t < this.deadline_
    THEN [this |-> [this EXCEPT !.deadline_ = PlusMillis(@, 1)], ret |-> TRUE]
    ELSE [this |-> this, ret |-> FALSE]

\* variant: the reading equal to the deadline still counts as in time (<= for <)
DurationOnFailureInclusive(this, permanent, t) ==
    [this |-> this, ret |-> (~permanent) /\ t <= this.deadline_]

DurationOnFailure(this, permanent, t) ==
    [this |-> this, ret |-> (~permanent) /\ t < this.deadline_]

\* variant: the value handed out becomes the overall deadline
DurationOperationDeadlineStoring(this, t) ==
    [this |-> [this EXCEPT !.deadline_ =
                  Min(this.deadline_, PlusMillis(t, this.rpc_duration_))],
     ret |-> Min(this.deadline_, PlusMillis(t, this.rpc_duration_))]

\* variant: rpc_duration_ is left out of the sum
DurationOperationDeadlineNoRpc(this, t) ==
    [this |-> this, ret |-> Min(this.deadline_, t)]

\* variant: the attempt is not clamped to the overall deadline
DurationOperationDeadlineUnclamped(this, t) ==
    [this |-> this, ret |-> PlusMillis(t, this.rpc_duration_)]

DurationOperationDeadline(this, t) ==
    [this |-> this, ret |-> Min(this.deadline_, PlusMillis(t, this.rpc_duration_))]

\* ---- RetryPolicy: dispatch on the dynamic type ----

PolicyOnFailure(this, permanent, t) ==
    IF this.kind = "count" THEN CountOnFailure(this, permanent)
    ELSE DurationOnFailure(this, permanent, t)

PolicyOperationDeadline(this, t) ==
    IF this.kind = "count" THEN CountOperationDeadline(this, t)
    ELSE DurationOperationDeadline(this, t)

PolicyClone(this, t) ==
    IF this.kind = "count" THEN CountClone(this) ELSE DurationClone(this, t)

\* the constructor call that made the first policy
CtorArgs ==
    [kind : {"count"}, max_failures : (-MaxNegArg)..MaxArg, rpc_duration : Durations]
    \cup
    [kind : {"duration"}, max_duration : Durations, rpc_duration : Durations]

Construct(a, t) ==
    IF a.kind = "count" THEN CountCtor(a.max_failures, a.rpc_duration)
    ELSE DurationCtor(a.max_duration, a.rpc_duration, t)

\* variant: failure_count_ is a static member, shared by all error-count policies
StoreStaticCounter(i, p) ==
    [j \in DOMAIN inst |->
        IF j = i THEN p
        ELSE IF p.kind = "count" /\ inst[j].kind = "count"
        THEN [inst[j] EXCEPT !.failure_count_ = p.failure_count_]
        ELSE inst[j]]

\* the data members belong to the object: a call writes this object only
Store(i, p) == [inst EXCEPT ![i] = p]

\* bookkeeping of the calls made so far: transients[i] and granted[i] count
\* the transient failures error-count policy i was told of and the retries it
\* approved; refused holds the error-count policies that have answered a
\* transient failure with false
\*
\* last is the call that has just returned, at the clock reading it was made at;
\* pre is the failure counter the call found
NoCall == [op |-> "none", id |-> 0, permanent |-> FALSE, at |-> 0, pre |-> 0,
           ret |-> FALSE, deadline |-> 0]

Ids == 1..Len(inst)

\* the threads of the caller; a thread is idle, or inside OnFailure between
\* the read and the write of failure_count_++ ("increment"), or inside clone()
\* between the copy constructor's reads of rhs and the delegated constructor
\* ("construct"); reg is the counter value read, rhs the members read
Threads == {"t1", "t2"}

NoPolicy == [kind |-> "none"]

Idle == [pc |-> "idle", id |-> 0, reg |-> 0, rhs |-> NoPolicy]

\* the reading of c_.now() a constructor takes: only the duration policy takes one
Reading(p, t) ==
    IF p.kind = "duration" THEN [taken |-> TRUE, at |-> t]
    ELSE [taken |-> FALSE, at |-> 0]

FailureCount(p) == IF p.kind = "count" THEN p.failure_count_ ELSE 0

\* a policy as it is with no failure counted
WithoutFailures(p) ==
    IF p.kind = "count" THEN [p EXCEPT !.failure_count_ = 0] ELSE p

Init ==
    /\ now \in 0..MaxStart
    /\ args \in CtorArgs
    /\ inst = <<Construct(args, now)>>
    /\ born = <<[from |-> 0, reading |-> Reading(Construct(args, now), now)]>>
    /\ transients = <<0>>
    /\ granted = <<0>>
    /\ refused = {}
    /\ last = NoCall
    /\ thr = [t \in Threads |-> Idle]
    /\ raced = {}

OnFailure(i, permanent) ==
    /\ i \in Ids
    /\ (inst[i].kind = "count" /\ ~permanent) => transients[i] < MaxCalls
    /\ LET r == PolicyOnFailure(inst[i], permanent, now) IN
         /\ inst' = Store(i, r.this)
         /\ last' = [op |-> "OnFailure", id |-> i, permanent |-> permanent,
                     at |-> now, pre |-> FailureCount(inst[i]),
                     ret |-> r.ret, deadline |-> 0]
    /\ transients' = [transients EXCEPT ![i] =
                        IF inst[i].kind = "count" /\ ~permanent THEN @ + 1 ELSE @]
    /\ LET r == PolicyOnFailure(inst[i], permanent, now) IN
         /\ granted' = [granted EXCEPT ![i] =
                          IF inst[i].kind = "count" /\ r.ret THEN @ + 1 ELSE @]
         /\ refused' = IF inst[i].kind = "count" /\ (~permanent) /\ ~r.ret
                       THEN refused \cup {i} ELSE refused
    /\ UNCHANGED <<now, args, born, thr, raced>>

OperationDeadline(i) ==
    /\ i \in Ids
    /\ LET r == PolicyOperationDeadline(inst[i], now) IN
         /\ inst' = Store(i, r.this)
         /\ last' = [op |-> "OperationDeadline", id |-> i, permanent |-> FALSE,
                     at |-> now, pre |-> FailureCount(inst[i]),
                     ret |-> FALSE, deadline |-> r.ret]
    /\ UNCHANGED <<now, args, born, transients, granted, refused, thr, raced>>

Clone(i) ==
    /\ i \in Ids
    /\ Len(inst) < MaxInst
    /\ inst' = Append(inst, PolicyClone(inst[i], now))
    /\ born' = Append(born, [from |-> i,
                             reading |-> Reading(PolicyClone(inst[i], now), now)])
    /\ transients' = Append(transients, 0)
    /\ granted' = Append(granted, 0)
    /\ last' = [op |-> "clone", id |-> Len(inst) + 1, permanent |-> FALSE,
                at |-> now, pre |-> FailureCount(inst[i]),
                ret |-> FALSE, deadline |-> 0]
    /\ UNCHANGED <<now, args, refused, thr, raced>>

\* std::chrono::system_clock advances between calls
Tick ==
    /\ now < MaxTime
    /\ now' = now + 1
    /\ last' = NoCall
    /\ UNCHANGED <<inst, args, born, transients, granted, refused, thr, raced>>

\* std::chrono::system_clock is not steady: the system time can be set back
ClockAdjust ==
    /\ now > 0
    /\ now' = now - 1
    /\ last' = NoCall
    /\ UNCHANGED <<inst, args, born, transients, granted, refused, thr, raced>>

Next ==
    \/ \E i \in 1..MaxInst, permanent \in BOOLEAN : OnFailure(i, permanent)
    \/ \E i \in 1..MaxInst : OperationDeadline(i)
    \/ \E i \in 1..MaxInst : Clone(i)
    \/ Tick
    \/ ClockAdjust

Spec == Init /\ [][Next]_vars

\* ---- the same calls made by several threads without synchronization ----

InFlight(i) == {u \in Threads : thr[u].pc = "increment" /\ thr[u].id = i}

\* OnFailure up to the read of failure_count_; a call that does not reach
\* failure_count_++ (permanent status, duration policy) returns at once
ThreadOnFailureRead(t, i, permanent) ==
    /\ thr[t].pc = "idle"
    /\ i \in Ids
    /\ (inst[i].kind = "count" /\ ~permanent) =>
          transients[i] + Cardinality(InFlight(i)) < MaxCalls
    /\ IF inst[i].kind = "count" /\ ~permanent
       THEN /\ thr' = [thr EXCEPT ![t] = [pc |-> "increment", id |-> i,
                                          reg |-> inst[i].failure_count_,
                                          rhs |-> NoPolicy]]
            /\ raced' = IF InFlight(i) # {} THEN raced \cup {i} ELSE raced
            /\ UNCHANGED <<inst, last>>
       ELSE /\ LET r == PolicyOnFailure(inst[i], permanent, now) IN
                 /\ inst' = Store(i, r.this)
                 /\ last' = [op |-> "OnFailure", id |-> i, permanent |-> permanent,
                             at |-> now, pre |-> FailureCount(inst[i]),
                             ret |-> r.ret, deadline |-> 0]
            /\ UNCHANGED <<thr, raced>>
    /\ UNCHANGED <<now, args, born, transients, granted, refused>>

\* the rest of failure_count_++ < max_failures_: the write of the value read
\* plus one, and the comparison of the value read
ThreadOnFailureWrite(t) ==
    /\ thr[t].pc = "increment"
    /\ LET i == thr[t].id
           r == CountOnFailure([inst[i] EXCEPT !.failure_count_ = thr[t].reg], FALSE)
       IN /\ inst' = Store(i, r.this)
          /\ last' = [op |-> "OnFailure", id |-> i, permanent |-> FALSE,
                      at |-> now, pre |-> thr[t].reg,
                      ret |-> r.ret, deadline |-> 0]
          /\ transients' = [transients EXCEPT ![i] = @ + 1]
          /\ granted' = [granted EXCEPT ![i] = IF r.ret THEN @ + 1 ELSE @]
          /\ refused' = IF r.ret THEN refused ELSE refused \cup {i}
    /\ thr' = [thr EXCEPT ![t] = Idle]
    /\ UNCHANGED <<now, args, born, raced>>

\* clone() up to the copy constructor's reads of the members of rhs
ThreadCloneCopy(t, i) ==
    /\ thr[t].pc = "idle"
    /\ i \in Ids
    /\ Len(inst) < MaxInst
    /\ thr' = [thr EXCEPT ![t] = [pc |-> "construct", id |-> i, reg |-> 0,
                                   rhs |-> WithoutFailures(inst[i])]]
    /\ UNCHANGED <<now, inst, args, born, transients, granted, refused, last, raced>>

\* the delegated constructor: it reads the clock and makes the new object
ThreadCloneConstruct(t) ==
    /\ thr[t].pc = "construct"
    /\ Len(inst) < MaxInst
    /\ inst' = Append(inst, PolicyClone(thr[t].rhs, now))
    /\ born' = Append(born, [from |-> thr[t].id,
                             reading |-> Reading(PolicyClone(thr[t].rhs, now), now)])
    /\ transients' = Append(transients, 0)
    /\ granted' = Append(granted, 0)
    /\ last' = [op |-> "clone", id |-> Len(inst) + 1, permanent |-> FALSE,
                at |-> now, pre |-> FailureCount(inst[thr[t].id]),
                ret |-> FALSE, deadline |-> 0]
    /\ thr' = [thr EXCEPT ![t] = Idle]
    /\ UNCHANGED <<now, args, refused, raced>>

\* the interleavings are explored for one rpc_duration: OnFailure does not read
\* rpc_duration_ and clone() hands it on as it is
InitThreads ==
    /\ Init
    /\ args.rpc_duration = Millis(1)

\* several threads clone one shared template; nobody reports failures to it
NextCloneThreads ==
    \/ \E t \in Threads : ThreadCloneCopy(t, 1)
    \/ \E t \in Threads : ThreadCloneConstruct(t)
    \/ Tick

SpecCloneThreads == InitThreads /\ [][NextCloneThreads]_vars

\* several threads report failures to one shared policy
NextFailureThreads ==
    \/ \E t \in Threads, permanent \in BOOLEAN : ThreadOnFailureRead(t, 1, permanent)
    \/ \E t \in Threads : ThreadOnFailureWrite(t)
    \/ Tick

SpecFailureThreads == InitThreads /\ [][NextFailureThreads]_vars

TypeOK ==
    /\ now \in 0..MaxTime
    /\ Len(inst) \in 1..MaxInst
    /\ Len(born) = Len(inst) /\ Len(transients) = Len(inst)
    /\ last.op \in {"none", "OnFailure", "OperationDeadline", "clone"}

\* ---- the calls the properties speak of ----

IsCount(i) == inst[i].kind = "count"
IsDuration(i) == inst[i].kind = "duration"

FailureOn(i) == last.op = "OnFailure" /\ last.id = i
TransientOn(i) == FailureOn(i) /\ ~last.permanent
PermanentOn(i) == FailureOn(i) /\ last.permanent
DeadlineOn(i) == last.op = "OperationDeadline" /\ last.id = i

\* the first policy was constructed with arguments the design calls valid:
\* no negative maximum, no negative duration
ValidArgs ==
    /\ args.rpc_duration.count >= 0
    /\ IF args.kind = "count" THEN args.max_failures >= 0
       ELSE args.max_duration.count >= 0

\* C1: an error-count policy with max_failures = N answers a transient
\* failure with true exactly when the counter before the call is below N;
\* so its k-th transient failure is answered true exactly when k <= N (the
\* first N with true, the (N+1)-th with false).
C1_CountedRetries ==
    \A i \in Ids : (IsCount(i) /\ TransientOn(i)) =>
        /\ last.ret = (last.pre < inst[i].max_failures_)
        /\ last.ret = (transients[i] <= inst[i].max_failures_)

\* the (N+1)-th transient failure of a policy with N = 2 was answered false
C1_Witness ==
    \E i \in Ids : /\ IsCount(i) /\ TransientOn(i)
                   /\ inst[i].max_failures_ = 2
                   /\ transients[i] = 3
                   /\ last.ret = FALSE

\* C2: for both policies OnFailure with a permanent status returns false,
\* whatever the failure counter and the clock reading are.
C2_PermanentNeverRetried ==
    \A i \in Ids : PermanentOn(i) => last.ret = FALSE

\* a permanent failure was reported while retry budget remained
C2_Witness ==
    \E i \in Ids : /\ PermanentOn(i)
                   /\ \/ IsCount(i) /\ inst[i].failure_count_ < inst[i].max_failures_
                      \/ IsDuration(i) /\ last.at < inst[i].deadline_

\* C3 as stated: every OnFailure call of an error-count policy advances the
\* failure counter by exactly one, a permanent failure included (stated for
\* valid constructor arguments).
C3_EveryCallCounts ==
    \A i \in Ids : (ValidArgs /\ IsCount(i) /\ FailureOn(i)) =>
        inst[i].failure_count_ = last.pre + 1

\* C3 amended: a transient failure advances the counter by exactly one,
\* whether it is answered true or false; a permanent failure leaves the
\* counter as it was, so it consumes none of the retry budget.
C3_TransientCallsCount ==
    \A i \in Ids : (IsCount(i) /\ FailureOn(i)) =>
        /\ inst[i].failure_count_ = last.pre + (IF last.permanent THEN 0 ELSE 1)
        /\ inst[i].failure_count_ = transients[i]

\* a permanent failure reported after one counted failure, budget remaining
C3_Witness ==
    \E i \in Ids : /\ IsCount(i) /\ PermanentOn(i)
                   /\ last.pre = 1
                   /\ inst[i].failure_count_ = 1
                   /\ inst[i].max_failures_ = 2

\* the exact length of a duration argument, in clock ticks
Ticks(d) == IF d.period = "milli" THEN d.count * TicksPerMs ELSE d.count

\* the length of a duration argument once truncated to whole milliseconds
TruncatedTicks(d) == DurationCast(d) * TicksPerMs

\* the arguments the constructor of policy i was called with: those of the
\* first construction, or the members of the source the copy constructor
\* hands on
CtorMaxDuration(i) ==
    IF born[i].from = 0 THEN args.max_duration
    ELSE Millis(inst[born[i].from].max_duration_)

CtorRpcDuration(i) ==
    IF born[i].from = 0 THEN args.rpc_duration
    ELSE Millis(inst[born[i].from].rpc_duration_)

\* the clock reading the constructor of a duration policy took
StartOf(i) == born[i].reading.at

\* C4 as stated: a duration policy constructed at reading start with
\* max_duration = D answers a transient failure with true exactly when the
\* reading at the call is below start + D (stated for valid constructor
\* arguments).
C4_RetryUntilStartPlusMaxDuration ==
    \A i \in Ids : (ValidArgs /\ IsDuration(i) /\ TransientOn(i)) =>
        last.ret = (last.at < StartOf(i) + Ticks(CtorMaxDuration(i)))

\* C4 amended: ... exactly when the reading at the call is below start + D',
\* where D' is max_duration truncated toward zero to whole milliseconds.
C4_RetryUntilStartPlusTruncatedMaxDuration ==
    \A i \in Ids : (IsDuration(i) /\ TransientOn(i)) =>
        last.ret = (last.at < StartOf(i) + TruncatedTicks(CtorMaxDuration(i)))

\* a transient failure at the very reading start + D', D' > 0, was answered false
C4_Witness ==
    \E i \in Ids : /\ IsDuration(i) /\ TransientOn(i)
                   /\ DurationCast(CtorMaxDuration(i)) > 0
                   /\ last.at = StartOf(i) + TruncatedTicks(CtorMaxDuration(i))
                   /\ last.ret = FALSE

\* C5 as stated: OperationDeadline of a duration policy returns
\* min(start + max_duration, now + rpc_duration) and so never exceeds
\* start + max_duration (stated for valid constructor arguments).
C5_DeadlineIsMinOfOverallAndAttempt ==
    \A i \in Ids : (ValidArgs /\ IsDuration(i) /\ DeadlineOn(i)) =>
        /\ last.deadline = Min(StartOf(i) + Ticks(CtorMaxDuration(i)),
                               last.at + Ticks(CtorRpcDuration(i)))
        /\ last.deadline <= StartOf(i) + Ticks(CtorMaxDuration(i))

\* C5 amended: the same with both durations truncated toward zero to whole
\* milliseconds: min(start + D', now + R'), never above start + D'.
C5_DeadlineIsMinOfTruncated ==
    \A i \in Ids : (IsDuration(i) /\ DeadlineOn(i)) =>
        /\ last.deadline = Min(StartOf(i) + TruncatedTicks(CtorMaxDuration(i)),
                               last.at + TruncatedTicks(CtorRpcDuration(i)))
        /\ last.deadline <= StartOf(i) + TruncatedTicks(CtorMaxDuration(i))

\* before the overall deadline, an attempt that would run past it was clamped
C5_Witness ==
    \E i \in Ids : /\ IsDuration(i) /\ DeadlineOn(i)
                   /\ last.at < inst[i].deadline_
                   /\ last.at + TruncatedTicks(CtorRpcDuration(i)) > inst[i].deadline_
                   /\ last.deadline = inst[i].deadline_

\* C6 as stated: OperationDeadline of an error-count policy returns the
\* reading at the call plus the rpc_duration given at construction (stated
\* for valid constructor arguments).
C6_CountDeadlineIsNowPlusRpcDuration ==
    \A i \in Ids : (ValidArgs /\ IsCount(i) /\ DeadlineOn(i)) =>
        last.deadline = last.at + Ticks(CtorRpcDuration(i))

\* C6 amended: ... plus the rpc_duration given at construction truncated
\* toward zero to whole milliseconds, whatever the failure counter is.
C6_CountDeadlineIsNowPlusTruncatedRpcDuration ==
    \A i \in Ids : (IsCount(i) /\ DeadlineOn(i)) =>
        last.deadline = last.at + TruncatedTicks(CtorRpcDuration(i))

\* an exhausted error-count policy was asked for a deadline
C6_Witness ==
    \E i \in Ids : /\ IsCount(i) /\ DeadlineOn(i)
                   /\ inst[i].max_failures_ >= 0
                   /\ inst[i].failure_count_ > inst[i].max_failures_
                   /\ inst[i].rpc_duration_ > 0
                   /\ last.deadline > last.at

\* C7: OperationDeadline changes no policy state, so calls of it placed
\* anywhere among the OnFailure calls change neither their results nor the
\* failure counter; the value it returns is the one a second call at the same
\* reading returns, and the one the policy returns with no failure counted.
C7_OperationDeadlineIsPure ==
    /\ [][last'.op = "OperationDeadline" =>
            /\ inst' = inst
            /\ transients' = transients
            /\ DeadlineOn(last'.id) => last'.deadline = last.deadline]_vars
    /\ [](\A i \in Ids : DeadlineOn(i) =>
            /\ FailureCount(inst[i]) = last.pre
            /\ last.deadline =
                 PolicyOperationDeadline(WithoutFailures(inst[i]), last.at).ret)

\* a deadline was asked for between two counted failures
C7_Witness ==
    \E i \in Ids : /\ IsCount(i) /\ DeadlineOn(i)
                   /\ last.pre = 1
                   /\ inst[i].failure_count_ = 1
                   /\ inst[i].max_failures_ = 2

IsClone(i) == born[i].from # 0

\* a policy freshly constructed, at the reading the constructor of policy i
\* took, with the arguments of the first construction
Fresh(i) == Construct(args, StartOf(i))

\* a policy after n transient failures
RECURSIVE AfterTransients(_, _)
AfterTransients(p, n) ==
    IF n = 0 THEN p
    ELSE AfterTransients(PolicyOnFailure(p, FALSE, 0).this, n - 1)

\* the transient failures policy i had counted before the call in last
TransientsBefore(i) ==
    IF IsCount(i) /\ TransientOn(i) THEN transients[i] - 1 ELSE transients[i]

\* C8: a clone, whatever state its source was in, starts as a policy freshly
\* constructed at the clone-time reading with the same configuration (failure
\* counter 0), and answers every later OnFailure and OperationDeadline call as
\* that fresh policy would after the same calls.
C8_CloneBehavesAsFresh ==
    \A i \in Ids : IsClone(i) =>
        /\ (last.op = "clone" /\ last.id = i) =>
              /\ inst[i] = Construct(args, last.at)
              /\ FailureCount(inst[i]) = 0
        /\ inst[i] = AfterTransients(Fresh(i), transients[i])
        /\ FailureOn(i) =>
              last.ret = PolicyOnFailure(AfterTransients(Fresh(i), TransientsBefore(i)),
                                         last.permanent, last.at).ret
        /\ DeadlineOn(i) =>
              last.deadline =
                 PolicyOperationDeadline(AfterTransients(Fresh(i), transients[i]),
                                         last.at).ret

\* a clone has just been taken from an exhausted error-count policy
C8_Witness ==
    \E i \in Ids : /\ IsClone(i) /\ IsCount(i)
                   /\ last.op = "clone" /\ last.id = i
                   /\ inst[i].max_failures_ = 1
                   /\ last.pre = 2
                   /\ inst[i].failure_count_ = 0

\* C9: source and clone share no mutable state: an OnFailure call on one
\* policy leaves every other policy (its counter, its deadline, and so its
\* later answers) as it was.
C9_NoSharedState ==
    [][last'.op = "OnFailure" =>
          \A j \in Ids \ {last'.id} : inst'[j] = inst[j]]_vars

\* source and clone have counted different numbers of failures
C9_Witness ==
    /\ Len(inst) >= 2
    /\ IsCount(1) /\ IsClone(2) /\ TransientOn(2)
    /\ inst[1].failure_count_ = 2
    /\ inst[2].failure_count_ = 1

\* C10: a clone of a duration policy taken at reading t has the overall
\* deadline t + max_duration, a fresh window of full length, and answers a
\* transient failure with true exactly at readings below t + max_duration,
\* also when its source's deadline had passed at t.
C10_CloneGetsFreshWindow ==
    \A i \in Ids : (IsClone(i) /\ IsDuration(i)) =>
        /\ inst[i].deadline_ =
              PlusMillis(StartOf(i), inst[born[i].from].max_duration_)
        /\ (last.op = "clone" /\ last.id = i) => StartOf(i) = last.at
        /\ TransientOn(i) =>
              last.ret = (last.at < PlusMillis(StartOf(i),
                                               inst[born[i].from].max_duration_))

\* the clone of a policy whose deadline had passed answered true
C10_Witness ==
    \E i \in Ids : /\ IsClone(i) /\ IsDuration(i) /\ TransientOn(i)
                   /\ inst[born[i].from].deadline_ <= StartOf(i)
                   /\ inst[born[i].from].max_duration_ > 0
                   /\ last.ret = TRUE

\* the call in last is the first failure handed to policy i, at the reading
\* the policy was made at
FirstCallOn(i) ==
    /\ TransientOn(i)
    /\ IF IsCount(i) THEN transients[i] = 1 ELSE last.at = StartOf(i)

\* C14 as stated: every policy with valid arguments is Active right after
\* construction or clone: a transient failure as its first call, at the reading
\* of construction, is answered true.
C14_ActiveAfterConstruction ==
    \A i \in Ids : (ValidArgs /\ FirstCallOn(i)) => last.ret = TRUE

\* C14 amended: ... is answered true exactly when max_failures is at least 1,
\* respectively max_duration at least one millisecond; with max_failures = 0 or
\* a max_duration below one millisecond the policy starts exhausted.
C14_ActiveAfterConstructionIfBudget ==
    \A i \in Ids : FirstCallOn(i) =>
        last.ret = (IF IsCount(i) THEN inst[i].max_failures_ >= 1
                    ELSE DurationCast(CtorMaxDuration(i)) >= 1)

\* the first call on a fresh clone was answered true
C14_Witness ==
    \E i \in Ids : IsClone(i) /\ FirstCallOn(i) /\ last.ret = TRUE

\* C15: rpc_duration, max_failures, max_duration and deadline of a policy keep
\* their construction-time values whatever is called; the failure counter is
\* changed by OnFailure on that policy only and never decreases.
C15_ConfigurationIsFixed ==
    /\ [](\A i \in Ids : WithoutFailures(inst[i]) = Fresh(i))
    /\ [][\A i \in Ids :
            /\ WithoutFailures(inst'[i]) = WithoutFailures(inst[i])
            /\ FailureCount(inst'[i]) >= FailureCount(inst[i])
            /\ FailureCount(inst'[i]) # FailureCount(inst[i]) =>
                  (last'.op = "OnFailure" /\ last'.id = i)]_vars

\* a deadline was asked of a policy that has counted failures and been cloned
C15_Witness ==
    \E i \in Ids : /\ IsCount(i) /\ DeadlineOn(i)
                   /\ Len(inst) >= 2
                   /\ inst[i].failure_count_ = 2

\* C16: OnFailure of a duration policy is history-independent: its answer is
\* a function of the status, the reading at the call and the deadline fixed at
\* construction, and the call changes no state.
C16_DurationOnFailureHistoryFree ==
    /\ [](\A i \in Ids : (IsDuration(i) /\ FailureOn(i)) =>
            last.ret = ((~last.permanent) /\ last.at < Fresh(i).deadline_))
    /\ [][(last'.op = "OnFailure" /\ inst[last'.id].kind = "duration") =>
            inst' = inst]_vars

\* two policies with the same deadline; one has just approved a retry
C16_Witness ==
    /\ Len(inst) >= 2
    /\ IsDuration(1) /\ TransientOn(2)
    /\ inst[1].deadline_ = inst[2].deadline_
    /\ last.ret = TRUE

RpcNonNegative == args.rpc_duration.count >= 0

\* C19 as stated: with rpc_duration >= 0, OperationDeadline of a duration
\* policy at a reading below the overall deadline returns a value not before
\* that reading, and after it when rpc_duration > 0; a value before the reading
\* is returned only at readings past the overall deadline.
C19_NoDeadlineInThePast ==
    \A i \in Ids : (RpcNonNegative /\ IsDuration(i) /\ DeadlineOn(i)) =>
        /\ last.at < inst[i].deadline_ =>
              /\ last.deadline >= last.at
              /\ Ticks(CtorRpcDuration(i)) > 0 => last.deadline > last.at
        /\ last.deadline < last.at => last.at > inst[i].deadline_

\* C19 amended: ... and after it when rpc_duration is at least one
\* millisecond (a shorter rpc_duration is stored as zero).
C19_NoDeadlineInThePastTruncated ==
    \A i \in Ids : (RpcNonNegative /\ IsDuration(i) /\ DeadlineOn(i)) =>
        /\ last.at < inst[i].deadline_ =>
              /\ last.deadline >= last.at
              /\ (DurationCast(CtorRpcDuration(i)) > 0) = (last.deadline > last.at)
        /\ last.deadline < last.at => last.at > inst[i].deadline_

\* before the overall deadline a deadline after the reading was handed out
C19_Witness ==
    \E i \in Ids : /\ IsDuration(i) /\ DeadlineOn(i) /\ RpcNonNegative
                   /\ last.at < inst[i].deadline_
                   /\ last.deadline > last.at

\* s is x truncated toward zero to a multiple of k: between 0 and x, less
\* than k away from x
IsTruncationOf(s, x, k) ==
    /\ IF x >= 0 THEN 0 <= s /\ s <= x ELSE x <= s /\ s <= 0
    /\ IF x >= 0 THEN x - s < k ELSE s - x < k
    /\ s % k = 0

Exhausted(i) == ~PolicyOnFailure(inst[i], FALSE, now).ret

\* C12: Exhausted is sticky for the error-count policy: once it has answered
\* a transient failure with false, it answers every later OnFailure call with
\* false, whatever calls are made and however the clock moves.
C12_CountExhaustedIsSticky ==
    /\ [](\A i \in Ids : (i \in refused /\ FailureOn(i)) => last.ret = FALSE)
    /\ [](\A i \in refused : Exhausted(i))
    /\ [][\A i \in Ids : (IsCount(i) /\ Exhausted(i)) => Exhausted(i)']_vars

\* an exhausted error-count policy was told of a second failure past its budget
C12_Witness ==
    \E i \in Ids : /\ IsCount(i) /\ TransientOn(i)
                   /\ inst[i].max_failures_ = 1
                   /\ transients[i] = 3
                   /\ last.ret = FALSE

\* C13 as stated: Exhausted is sticky for the duration policy: once it has
\* answered a transient failure with false it answers false ever after,
\* whatever readings the clock returns later (stated for valid constructor
\* arguments, on the step that follows the refusal).
C13_DurationExhaustedIsSticky ==
    [][\A i \in Ids :
          (ValidArgs /\ IsDuration(i) /\ TransientOn(i) /\ last.ret = FALSE) =>
              Exhausted(i)']_vars

\* C13 amended: ... it does so ever after as long as the clock is not set
\* back: at every later reading at or past the deadline the answer is false,
\* and a policy leaves Exhausted only by a reading before the deadline.
C13_DurationExhaustedWhileClockSteady ==
    /\ [](\A i \in Ids : (IsDuration(i) /\ TransientOn(i)) =>
            (last.ret = FALSE) = (last.at >= inst[i].deadline_))
    /\ [][\A i \in Ids : (IsDuration(i) /\ Exhausted(i) /\ now' >= now) =>
            Exhausted(i)']_vars
    /\ [][\A i \in Ids : (IsDuration(i) /\ Exhausted(i) /\ ~Exhausted(i)') =>
            now' < inst[i].deadline_]_vars

\* a duration policy with a window of at least a millisecond has refused
C13_Witness ==
    \E i \in Ids : /\ IsDuration(i) /\ TransientOn(i)
                   /\ inst[i].max_duration_ >= 1
                   /\ last.ret = FALSE

\* C18: an error-count policy approves at most max_failures retries over any
\* sequence of transient and permanent failures, so a caller that retries only
\* while OnFailure returns true makes at most max_failures retries and
\* max_failures + 1 OnFailure calls.
C18_RetryBudgetBound ==
    \A i \in Ids : IsCount(i) =>
        /\ granted[i] <= (IF inst[i].max_failures_ > 0 THEN inst[i].max_failures_ ELSE 0)
        /\ i \notin refused => transients[i] = granted[i]

\* the whole budget was approved and the next failure refused, with a
\* permanent failure in between
C18_Witness ==
    \E i \in Ids : /\ IsCount(i) /\ PermanentOn(i)
                   /\ inst[i].max_failures_ = 2
                   /\ granted[i] = 2
                   /\ i \in refused

C17_ExcessOnlyWhenCallsOverlap ==
    \A i \in Ids :
        (IsCount(i) /\ i \notin raced) =>
            /\ granted[i] <= (IF inst[i].max_failures_ > 0 THEN inst[i].max_failures_ ELSE 0)
            /\ inst[i].failure_count_ = transients[i]

\* two overlapping calls were both answered true on a budget of one retry, and
\* the counter shows one failure for the two
C17_Witness ==
    \E i \in raced : /\ IsCount(i)
                      /\ inst[i].max_failures_ = 1
                      /\ granted[i] = 2
                      /\ transients[i] = 2
                      /\ inst[i].failure_count_ = 1
====
